---- MODULE Spec2Model ----
(***************************************************************************)
(* A model of jojen's rule tree (src/src/Ruleset.ts), of its rule contract *)
(* and string rules (src/unnamed/part_001) and of its object rules         *)
(* (src/unnamed/part_000).                                                 *)
(*                                                                         *)
(* The module holds three state machines over one set of variables:        *)
(*   SpecRuleset  registration into the rule tree and chain building       *)
(*   SpecEngine   compilation and execution of a schema of string rules    *)
(*                against a string value                                   *)
(*   SpecObject   compilation of object.keys / object.unknown and the      *)
(*                asynchronous Keys.validate                               *)
(* A machine leaves the variables of the other machines at their idle      *)
(* values.                                                                 *)
(***************************************************************************)
EXTENDS Integers, Sequences, FiniteSets, TLC

VARIABLES
    \* ---- rule tree ----
    tree,       \* the Rulesets created so far, keyed by their path from the root
    nAdd,       \* number of addRule calls made on the root
    lastCall,   \* the arguments and outcome of the latest addRule call
    given,      \* path -> definition passed by the latest addRule call with that path
    chain,      \* the latest buildChain call: its receiver and the target it filled
    \* ---- engine ----
    pc,         \* position of the validation run
    decl,       \* the schema: chain calls in authoring order
    rules,      \* rule instances (deduplicated, then compiled, then the pipeline)
    idx,        \* index of the instance being compiled / validated
    opts,       \* engine options of the run
    input,      \* the value handed to the engine
    value,      \* working value of the run
    last,       \* result of the latest validate call of the current rule
    errors,     \* ValidationErrors recorded so far
    log,        \* calls the engine made on rule instances, in order
    \* ---- Keys.validate ----
    kv          \* state of the Keys.validate call in flight

rulesetVars == <<tree, nAdd, lastCall, given, chain>>
engineVars == <<pc, decl, rules, idx, opts, input, value, last, errors, log>>
vars == <<tree, nAdd, lastCall, given, chain,
          pc, decl, rules, idx, opts, input, value, last, errors, log, kv>>

\* An optional value: <<>> is JavaScript's undefined, <<x>> is the value x.
Undefined == <<>>
Some(x) == <<x>>
IsDefined(o) == o # <<>>
TheValue(o) == o[1]

(***************************************************************************)
(*                              RULE TREE                                  *)
(***************************************************************************)

\* Bound: number of addRule calls on the root.
MaxAddRule == 3

\* Rule definitions (constructors) registered into the tree.
Definitions == {"RuleA", "RuleB"}

\* Property names every plain object inherits from Object.prototype; they are
\* not own keys of `children = {}` but `this.children[name]` reads them.
ObjectPrototypeNames == {"constructor"}

\* Paths handed to addRule: the tree of the class comment, the root itself,
\* same-named segments at several depths, and an inherited property name.
RulePaths ==
    { <<>>,
      <<"number">>, <<"number", "min">>, <<"number", "integer">>,
      <<"number", "integer", "thirtyTwoBit">>,
      <<"date", "min">>, <<"date", "iso">>, <<"required">>,
      <<"min">>, <<"number", "integer", "min">>,
      <<"constructor">>, <<"number", "constructor">> }

\* new Ruleset(parent): no node, no children.
NewRuleset == [node |-> Undefined, children |-> {}]

Parent(p) == SubSeq(p, 1, Len(p) - 1)

\* The scopes on the path from the root to p, p included.
RECURSIVE Scopes(_)
Scopes(p) == IF p = <<>> THEN {<<>>} ELSE {p} \cup Scopes(Parent(p))

\* this.children[head] is truthy: an own child, or an inherited property.
ChildTruthy(t, at, head) ==
    head \in t[at].children \/ head \in ObjectPrototypeNames

\* getNode of the Ruleset at path p.
GetNode(t, p) == t[p].node

\* addRule(path, rule) on the Ruleset at `at`. The result is the tree after the
\* call and whether the call threw (children[head] is an inherited property
\* and has no addRule method); nodes created before the throw stay.
RECURSIVE AddRule(_, _, _, _)
AddRule(t, at, path, rule) ==
    IF path = <<>>
    THEN [tree |-> [t EXCEPT ![at].node = Some(rule)], threw |-> FALSE]
    ELSE LET head == path[1]
             child == Append(at, head)
             t1 == IF ~ChildTruthy(t, at, head)
                   THEN [q \in DOMAIN t \cup {child} |->
                            IF q = child THEN NewRuleset
                            ELSE IF q = at
                                 THEN [t[at] EXCEPT !.children = @ \cup {head}]
                                 ELSE t[q]]
                   ELSE t
         IN IF head \in t1[at].children
            THEN AddRule(t1, child, Tail(path), rule)
            ELSE [tree |-> t1, threw |-> TRUE]

EmptyTarget == <<>>

\* A mutant of BuildChain: the parent's chain is not built.
RECURSIVE BuildChainOwnOnly(_, _, _)
BuildChainOwnOnly(t, n, obj) ==
    [k \in DOMAIN obj \cup t[n].children |->
        IF k \in t[n].children THEN Append(n, k) ELSE obj[k]]

\* A mutant of BuildChain: the parent's chain is built after the own children.
RECURSIVE BuildChainParentLast(_, _, _)
BuildChainParentLast(t, n, obj) ==
    LET own == [k \in DOMAIN obj \cup t[n].children |->
                   IF k \in t[n].children THEN Append(n, k) ELSE obj[k]]
    IN IF n # <<>> THEN BuildChainParentLast(t, Parent(n), own) ELSE own

\* buildChain(obj, fn) on the Ruleset at n. The target maps each installed name
\* to the child Ruleset its handler passes to fn.
RECURSIVE BuildChain(_, _, _)
BuildChain(t, n, obj) ==
    LET base == IF n # <<>> THEN BuildChain(t, Parent(n), obj) ELSE obj
    IN [k \in DOMAIN base \cup t[n].children |->
           IF k \in t[n].children THEN Append(n, k) ELSE base[k]]

NoCall == [made |-> FALSE, path |-> <<>>, rule |-> "", threw |-> FALSE,
           existed |-> FALSE]
NoChain == [built |-> FALSE, at |-> <<>>, target |-> EmptyTarget]

InitRuleset ==
    /\ tree = [p \in {<<>>} |-> NewRuleset]
    /\ nAdd = 0
    /\ lastCall = NoCall
    /\ given = <<>>
    /\ chain = NoChain

\* root.addRule(path, rule)
AddRuleCall ==
    /\ nAdd < MaxAddRule
    /\ \E path \in RulePaths, rule \in Definitions :
         LET r == AddRule(tree, <<>>, path, rule)
         IN /\ tree' = r.tree
            /\ lastCall' = [made |-> TRUE, path |-> path, rule |-> rule,
                            threw |-> r.threw, existed |-> path \in DOMAIN tree]
            /\ given' = [q \in DOMAIN given \cup {path} |->
                            IF q = path THEN rule ELSE given[q]]
    /\ nAdd' = nAdd + 1
    /\ UNCHANGED chain

\* N.buildChain(target, attach) on a fresh target, for a node N of the tree.
BuildChainCall ==
    /\ \E n \in DOMAIN tree :
         chain' = [built |-> TRUE, at |-> n,
                   target |-> BuildChain(tree, n, EmptyTarget)]
    /\ UNCHANGED <<tree, nAdd, lastCall, given>>

\* ---- idle values of the other machines ----
NoKeysCall == [called |-> FALSE, cb |-> 0, started |-> FALSE, members |-> <<>>]

EngineIdle ==
    /\ pc = "idle" /\ decl = <<>> /\ rules = <<>> /\ idx = 0
    /\ opts = [convert |-> FALSE, abortEarly |-> FALSE]
    /\ input = <<>> /\ value = <<>> /\ last = [pass |-> TRUE, info |-> <<>>] /\ errors = <<>> /\ log = <<>>
    /\ kv = NoKeysCall

NextRuleset ==
    \/ AddRuleCall /\ UNCHANGED <<engineVars, kv>>
    \/ BuildChainCall /\ UNCHANGED <<engineVars, kv>>

InitRulesetRun == InitRuleset /\ EngineIdle

SpecRuleset == InitRulesetRun /\ [][NextRuleset]_vars

\* The names some scope on the path from the root to n has as a child segment.
ScopeChildren(t, n) == UNION { t[a].children : a \in Scopes(n) }

\* The deepest scope on the path from the root to n that has child k.
DeepestScopeWith(t, n, k) ==
    CHOOSE a \in Scopes(n) :
        /\ k \in t[a].children
        /\ \A b \in Scopes(n) : k \in t[b].children => Len(b) <= Len(a)

\* C1: after N.buildChain on a target without rule callables, a name is
\* callable on the target iff it is a child segment of N or of an ancestor
\* of N.
C1_ReachableNames ==
    [][chain' # chain =>
         DOMAIN chain'.target = ScopeChildren(tree', chain'.at)]_vars

\* C1 witness: standing at `number`, `required` (a sibling of an ancestor's
\* child) is callable and `iso`, which the tree holds under `date`, is not.
C1_Witness ==
    /\ chain.built /\ chain.at = <<"number">>
    /\ <<"date", "iso">> \in DOMAIN tree /\ <<"required">> \in DOMAIN tree
    /\ "required" \in DOMAIN chain.target
    /\ "iso" \notin DOMAIN chain.target

\* C2: when several scopes on the path from the root to N have a child of the
\* same name, the callable of that name passes attach the child of the
\* deepest of those scopes.
C2_DeeperWins ==
    [][chain' # chain =>
         \A k \in DOMAIN chain'.target :
            chain'.target[k] =
                Append(DeepestScopeWith(tree', chain'.at, k), k)]_vars

\* C2 witness: `min` is a child of the root and of `number`; built from
\* `number`, the callable `min` leads to number.min.
C2_Witness ==
    /\ chain.built /\ chain.at = <<"number">>
    /\ "min" \in tree[<<>>].children
    /\ <<"number">> \in DOMAIN tree /\ "min" \in tree[<<"number">>].children
    /\ chain.target["min"] = <<"number", "min">>

\* C9: every path given to addRule resolves to a node whose getNode() is the
\* definition of the latest addRule call with exactly that path, and a node
\* no addRule call named holds no definition.
C9_LastWriteWins ==
    /\ \A p \in DOMAIN given :
          p \in DOMAIN tree /\ GetNode(tree, p) = Some(given[p])
    /\ \A p \in DOMAIN tree \ DOMAIN given : GetNode(tree, p) = Undefined

\* The same statement for the calls that returned: it holds of every path
\* no segment of which is an inherited property name.
OwnNamePath(p) == \A i \in 1..Len(p) : p[i] \notin ObjectPrototypeNames
AddRuleOwnNamePaths ==
    /\ \A p \in DOMAIN given :
          OwnNamePath(p) => p \in DOMAIN tree /\ GetNode(tree, p) = Some(given[p])
    /\ \A p \in DOMAIN tree \ DOMAIN given : GetNode(tree, p) = Undefined
    /\ lastCall.made => (lastCall.threw <=> ~OwnNamePath(lastCall.path))

\* Re-inserting an existing path creates no node and changes no other node.
AddRuleReinsert ==
    [][(nAdd' # nAdd /\ lastCall'.existed) =>
         /\ DOMAIN tree' = DOMAIN tree
         /\ \A q \in DOMAIN tree \ {lastCall'.path} : tree'[q] = tree[q]
         /\ tree'[lastCall'.path].children = tree[lastCall'.path].children]_vars

(***************************************************************************)
(*                     RULE CONTRACT AND STRING RULES                      *)
(***************************************************************************)

\* Bound: number of chain calls of a schema.
MaxRules == 3
\* Bound: length of the string values of the general runs.
MaxValueLen == 2
\* Bound: the string lengths and the min/max arguments of the length runs.
MaxLength == 6

\* priority.high < priority.normal < priority.low
PriorityHigh == 0
PriorityNormal == 1
PriorityLow == 2

\* Rule.priority(): normal unless the class overrides it. No class of
\* part_000 / part_001 overrides it; Required gates the type checks and
\* Custom stands for a rule that depends on other rules' decisions.
Priority(def) ==
    CASE def = "Required" -> PriorityHigh
      [] def = "Custom" -> PriorityLow
      [] OTHER -> PriorityNormal

\* static ruleName() of each class.
RuleName(def) ==
    CASE def = "StringValidator" -> "string"
      [] def = "Min" -> "string.min"
      [] def = "Max" -> "string.max"
      [] def = "Trim" -> "string.trim"
      [] def = "ObjectValidator" -> "object"
      [] def = "Keys" -> "object.keys"
      [] def = "Unknown" -> "object.unknown"
      [] def = "Required" -> "required"
      [] def = "Custom" -> "custom"

\* new Node() followed by _setParams(...args): the instance of the chain call
\* at position i of the schema.
NewRule(call, i) ==
    [id |-> i, def |-> call.def, _params |-> call.args,
     _val |-> Undefined, _keys |-> Undefined, _obj |-> Undefined,
     _allowUnknown |-> Undefined]

\* A mutant of IdenticalTo: the captured arguments are not compared.
IdenticalToNameOnly(a, b) == RuleName(a.def) = RuleName(b.def)

\* Rule.identicalTo(rule)
IdenticalTo(a, b) ==
    /\ RuleName(a.def) = RuleName(b.def)
    /\ a._params = b._params

\* ---- strings ----
Whitespace == {" "}

RECURSIVE TrimStart(_)
TrimStart(s) ==
    IF s # <<>> /\ Head(s) \in Whitespace THEN TrimStart(Tail(s)) ELSE s

RECURSIVE TrimEnd(_)
TrimEnd(s) ==
    IF s # <<>> /\ s[Len(s)] \in Whitespace
    THEN TrimEnd(SubSeq(s, 1, Len(s) - 1)) ELSE s

\* String.prototype.trim
StringTrim(s) == TrimEnd(TrimStart(s))

\* Results of validateSync: true, false, or a diagnostic object.
Pass == [pass |-> TRUE, info |-> Undefined]
Fail == [pass |-> FALSE, info |-> Undefined]
FailWith(info) == [pass |-> FALSE, info |-> Some(info)]

\* StringValidator.validateSync (every value of the model is a string)
StringValidateSync(r, v) == IF Len(v) > 0 THEN Pass ELSE Fail

\* A mutant of MinValidateSync: a strict comparison.
MinValidateSyncStrict(r, v) ==
    IF Len(v) > TheValue(r._val) THEN Pass
    ELSE FailWith([length |-> Len(v), min |-> TheValue(r._val)])

\* Min.validateSync
MinValidateSync(r, v) ==
    IF Len(v) >= TheValue(r._val) THEN Pass
    ELSE FailWith([length |-> Len(v), min |-> TheValue(r._val)])

\* Max.validateSync
MaxValidateSync(r, v) ==
    IF Len(v) <= TheValue(r._val) THEN Pass
    ELSE FailWith([length |-> Len(v), max |-> TheValue(r._val)])

\* Trim.validateSync
TrimValidateSync(r, v) == IF StringTrim(v) = v THEN Pass ELSE Fail

\* A mutant of TrimCoerce: the value is returned as it is.
TrimCoerceIdentity(v) == Some(v)

\* Trim.coerce
TrimCoerce(v) == Some(StringTrim(v))

\* Rule.coerce: no coercion took place.
RuleCoerce(v) == Undefined

\* Required: passes on every defined value.
RequiredValidateSync(r, v) == Pass

\* A rule whose validate and coerce are not known to the engine: any outcome.
CustomValidateResults == {Pass, Fail}

(***************************************************************************)
(*                            OBJECT RULES                                 *)
(***************************************************************************)

\* Property names in the order Object.keys lists them.
KeyOrder == <<"a", "b", "c">>

\* Object.keys(o) of an object modelled as a function from its property names
ObjectKeys(o) == SelectSeq(KeyOrder, LAMBDA k : k \in DOMAIN o)

\* assign({}, a, b)
Assign(a, b) ==
    [k \in DOMAIN a \cup DOMAIN b |-> IF k \in DOMAIN b THEN b[k] ELSE a[k]]

\* params.invokeFirst(Rule, fn): the index of the first already compiled
\* instance of the class among those before instance i, 0 when there is none.
InvokeFirst(rs, i, def) ==
    LET found == { j \in 1..(i - 1) : rs[j].def = def }
    IN IF found = {} THEN 0
       ELSE CHOOSE j \in found : \A k \in found : j <= k

\* params.invokeLast(Rule, fn): the index of the last such instance.
InvokeLast(rs, i, def) ==
    LET found == { j \in 1..(i - 1) : rs[j].def = def }
    IN IF found = {} THEN 0
       ELSE CHOOSE j \in found : \A k \in found : j >= k

\* A mutant of KeysCompile: a repeated declaration overrides the first
\* instance's keys instead of merging into them.
KeysCompileOverride(rs, i) ==
    LET arg == rs[i]._params[1]
        first == InvokeFirst(rs, i, "Keys")
    IN IF first # 0
       THEN [rs EXCEPT ![first]._obj = Some(arg),
                       ![first]._keys = Some(ObjectKeys(arg))]
       ELSE [rs EXCEPT ![i]._obj = Some(arg),
                       ![i]._keys = Some(ObjectKeys(arg)),
                       ![i]._allowUnknown = Some(FALSE)]

\* Keys.compile
KeysCompile(rs, i) ==
    LET arg == rs[i]._params[1]
        first == InvokeFirst(rs, i, "Keys")
    IN IF first # 0
       THEN [rs EXCEPT
               ![first]._obj = Some(Assign(TheValue(rs[first]._obj), arg)),
               ![first]._keys = Some(TheValue(rs[first]._keys) \o ObjectKeys(arg))]
       ELSE [rs EXCEPT ![i]._obj = Some(arg),
                       ![i]._keys = Some(ObjectKeys(arg)),
                       ![i]._allowUnknown = Some(FALSE)]

\* Unknown.compile
UnknownCompile(rs, i) ==
    LET allow == IF rs[i]._params = <<>> THEN TRUE ELSE rs[i]._params[1]
        lastKeys == InvokeLast(rs, i, "Keys")
    IN IF lastKeys # 0
       THEN [rs EXCEPT ![lastKeys]._allowUnknown = Some(allow)]
       ELSE rs

\* Min.compile / Max.compile
ValCompile(rs, i) == [rs EXCEPT ![i]._val = Some(rs[i]._params[1])]

\* compile(params) of instance i, by its class; Rule.compile does nothing.
Compile(rs, i) ==
    CASE rs[i].def = "Keys" -> KeysCompile(rs, i)
      [] rs[i].def = "Unknown" -> UnknownCompile(rs, i)
      [] rs[i].def \in {"Min", "Max"} -> ValCompile(rs, i)
      [] OTHER -> rs

\* operates()
Operates(r) ==
    CASE r.def \in {"ObjectValidator", "Unknown"} -> FALSE
      [] r.def = "Keys" -> IsDefined(r._keys)
      [] OTHER -> TRUE

(***************************************************************************)
(*                          EXECUTION ENGINE                               *)
(***************************************************************************)

\* The instances of a schema's chain calls, in authoring order.
Instances(d) == [i \in 1..Len(d) |-> NewRule(d[i], i)]

\* Compilation step 1: of identical instances the first occurrence is kept.
RECURSIVE Dedupe(_, _)
Dedupe(rs, acc) ==
    IF rs = <<>> THEN acc
    ELSE IF \E j \in 1..Len(acc) : IdenticalTo(acc[j], Head(rs))
         THEN Dedupe(Tail(rs), acc)
         ELSE Dedupe(Tail(rs), Append(acc, Head(rs)))

\* r inserted behind the instances of `sorted` that do not come after it.
InsertByPriority(sorted, r) ==
    LET before == { j \in 1..Len(sorted) :
                      Priority(sorted[j].def) <= Priority(r.def) }
        n == Cardinality(before)
    IN SubSeq(sorted, 1, n) \o <<r>> \o SubSeq(sorted, n + 1, Len(sorted))

\* A mutant of SortByPriority: the instances stay in authoring order.
SortByPriorityNone(rs, acc) == acc \o rs

\* Compilation step 4: a stable sort by priority().
RECURSIVE SortByPriority(_, _)
SortByPriority(rs, acc) ==
    IF rs = <<>> THEN acc
    ELSE SortByPriority(Tail(rs), InsertByPriority(acc, Head(rs)))

\* rule.error(params, info)
ValidationError(r, info) ==
    [rule |-> r.id, ruleName |-> RuleName(r.def), info |-> info]

\* The outcomes of validate(params) of a synchronous rule on value v.
ValidateResults(r, v) ==
    CASE r.def = "StringValidator" -> {StringValidateSync(r, v)}
      [] r.def = "Min" -> {MinValidateSync(r, v)}
      [] r.def = "Max" -> {MaxValidateSync(r, v)}
      [] r.def = "Trim" -> {TrimValidateSync(r, v)}
      [] r.def = "Required" -> {RequiredValidateSync(r, v)}
      [] r.def = "Custom" -> CustomValidateResults

Chars == {" ", "a"}
StringsUpTo(n) == UNION { [1..k -> Chars] : k \in 0..n }

\* The values a Custom rule's coerce may return.
CustomCoerceResults == {Undefined} \cup { Some(w) : w \in StringsUpTo(MaxValueLen) }

\* The outcomes of coerce(value) of a rule.
CoerceResults(r, v) ==
    CASE r.def = "Trim" -> {TrimCoerce(v)}
      [] r.def = "Custom" -> CustomCoerceResults
      [] OTHER -> {RuleCoerce(v)}

Call(def, args) == [def |-> def, args |-> args]
Schemas(calls, n) == UNION { [1..k -> calls] : k \in 0..n }

\* Chain calls of the general runs (string() is part of the length runs).
EngineCalls ==
    { Call("Min", <<1>>), Call("Min", <<2>>),
      Call("Trim", <<>>), Call("Required", <<>>), Call("Custom", <<>>) }

Alphabet == <<"a", "b", "c", "d", "e", "f", "g", "h">>
Options == [convert : BOOLEAN, abortEarly : BOOLEAN]

\* validate(value, schema, options, callback) is about to be called.
InitRun ==
    /\ pc = "declared" /\ rules = <<>> /\ idx = 0
    /\ opts \in Options
    /\ value = input /\ last = Pass /\ errors = <<>> /\ log = <<>>
    /\ kv = NoKeysCall

\* General runs: any schema of up to MaxRules chain calls on a short string.
InitGeneral ==
    /\ decl \in Schemas(EngineCalls, MaxRules)
    /\ input \in StringsUpTo(MaxValueLen)

\* Length runs: string().min(n).max(m) on "", "a", "ab", ...
InitLength ==
    /\ \E n \in 0..MaxLength, m \in 0..MaxLength :
          decl = << Call("StringValidator", <<>>), Call("Min", <<n>>),
                    Call("Max", <<m>>) >>
    /\ input \in { SubSeq(Alphabet, 1, k) : k \in 0..MaxLength }

\* Compilation step 1.
DedupeStep ==
    /\ pc = "declared"
    /\ rules' = Dedupe(Instances(decl), <<>>)
    /\ idx' = 1
    /\ pc' = "compiling"
    /\ UNCHANGED <<decl, opts, input, value, last, errors, log, kv>>

\* Compilation step 2: compile of the next instance, in authoring order.
CompileStep ==
    /\ pc = "compiling" /\ idx <= Len(rules)
    /\ rules' = Compile(rules, idx)
    /\ idx' = idx + 1
    /\ UNCHANGED <<pc, decl, opts, input, value, last, errors, log, kv>>

\* Compilation steps 3 and 4: the operating instances, sorted by priority.
PrepareStep ==
    /\ pc = "compiling" /\ idx > Len(rules)
    /\ rules' = SortByPriority(SelectSeq(rules, Operates), <<>>)
    /\ idx' = 1
    /\ pc' = "validate"
    /\ UNCHANGED <<decl, opts, input, value, last, errors, log, kv>>

\* The engine moves to the next rule.
NextRule ==
    /\ pc' = "validate" /\ idx' = idx + 1 /\ errors' = errors

\* The engine records the current rule's failure.
RecordError(res) ==
    /\ errors' = Append(errors, ValidationError(rules[idx], res.info))
    /\ IF opts.abortEarly
       THEN pc' = "done" /\ idx' = idx
       ELSE pc' = "validate" /\ idx' = idx + 1

\* The engine's continuation of the first validate call of a rule.
Validated(res) ==
    /\ last' = res
    /\ IF res.pass THEN NextRule
       ELSE IF opts.convert
            THEN pc' = "coerce" /\ idx' = idx /\ errors' = errors
            ELSE RecordError(res)

LogValidate(r, v, res) ==
    [op |-> "validate", id |-> r.id, v |-> v, pass |-> res.pass, ret |-> Undefined]
LogCoerce(r, v, c) ==
    [op |-> "coerce", id |-> r.id, v |-> v, pass |-> FALSE, ret |-> c]

\* validate of the current rule, a synchronous one.
ValidateStep ==
    /\ pc = "validate" /\ idx <= Len(rules) /\ rules[idx].def # "Keys"
    /\ \E res \in ValidateResults(rules[idx], value) :
          /\ log' = Append(log, LogValidate(rules[idx], value, res))
          /\ Validated(res)
    /\ UNCHANGED <<decl, rules, opts, input, value, kv>>

\* coerce of the current rule, whose validate failed with convert on.
CoerceStep ==
    /\ pc = "coerce"
    /\ \E c \in CoerceResults(rules[idx], value) :
          /\ log' = Append(log, LogCoerce(rules[idx], value, c))
          /\ IF IsDefined(c)
             THEN /\ value' = TheValue(c)
                  /\ pc' = "revalidate" /\ idx' = idx /\ errors' = errors
             ELSE /\ value' = value
                  /\ RecordError(last)
    /\ UNCHANGED <<decl, rules, opts, input, last, kv>>

\* validate of the current rule again, on the coerced value.
RevalidateStep ==
    /\ pc = "revalidate"
    /\ \E res \in ValidateResults(rules[idx], value) :
          /\ log' = Append(log, LogValidate(rules[idx], value, res))
          /\ last' = res
          /\ IF res.pass THEN NextRule ELSE RecordError(res)
    /\ UNCHANGED <<decl, rules, opts, input, value, kv>>

\* Every rule has resolved: callback(errors or null, value).
FinishStep ==
    /\ pc = "validate" /\ idx > Len(rules)
    /\ pc' = "done"
    /\ UNCHANGED <<decl, rules, idx, opts, input, value, last, errors, log, kv>>

RulesetIdle == InitRuleset

NextEngine ==
    \/ DedupeStep /\ UNCHANGED rulesetVars
    \/ CompileStep /\ UNCHANGED rulesetVars
    \/ PrepareStep /\ UNCHANGED rulesetVars
    \/ ValidateStep /\ UNCHANGED rulesetVars
    \/ CoerceStep /\ UNCHANGED rulesetVars
    \/ RevalidateStep /\ UNCHANGED rulesetVars
    \/ FinishStep /\ UNCHANGED rulesetVars

InitEngine == RulesetIdle /\ (InitGeneral \/ InitLength) /\ InitRun

SpecEngine == InitEngine /\ [][NextEngine]_vars

\* ---- the engine's calls on one rule instance ----
ValidatesOf(id) ==
    { k \in 1..Len(log) : log[k].op = "validate" /\ log[k].id = id }
CoercesOf(id) ==
    { k \in 1..Len(log) : log[k].op = "coerce" /\ log[k].id = id }
ErrorsOf(id) == { k \in 1..Len(errors) : errors[k].rule = id }
LastOf(S) == CHOOSE k \in S : \A j \in S : j <= k
\* The rule instance is between its first validate and its resolution.
InProgress(id) == pc \in {"coerce", "revalidate"} /\ rules[idx].id = id
\* The chain calls that no earlier chain call of the schema equals.
FirstOccurrences ==
    { i \in 1..Len(decl) :
        ~\E j \in 1..(i - 1) :
            decl[j].def = decl[i].def /\ decl[j].args = decl[i].args }
\* ValidationErrors as the caller sees them.
Reported == [k \in 1..Len(errors) |->
               [ruleName |-> errors[k].ruleName, info |-> errors[k].info]]

\* C6: coerce is called only with convert on, right after the rule's first
\* validate failed; a coerced value is validated again exactly once by the
\* same rule; a passing re-run leaves no error for the rule and the coerced
\* value as the result, a failing re-run or no coercion leaves exactly one
\* error for the rule. For string.trim the coerced value always passes.
C6_CoerceAndRetry ==
    /\ \A k \in 1..Len(log) : log[k].op = "coerce" =>
          /\ opts.convert
          /\ k > 1
          /\ log[k - 1].op = "validate" /\ log[k - 1].id = log[k].id
          /\ ~log[k - 1].pass
          /\ ValidatesOf(log[k].id) \cap 1..(k - 1) = {k - 1}
          /\ IF IsDefined(log[k].ret)
             THEN IF k = Len(log) THEN pc = "revalidate"
                  ELSE /\ log[k + 1].op = "validate"
                       /\ log[k + 1].id = log[k].id
                       /\ log[k + 1].v = TheValue(log[k].ret)
             ELSE ValidatesOf(log[k].id) = {k - 1}
    /\ \A id \in 1..Len(decl) :
          /\ Cardinality(CoercesOf(id)) <= 1
          /\ Cardinality(ValidatesOf(id)) <=
                1 + Cardinality({ k \in CoercesOf(id) : IsDefined(log[k].ret) })
          /\ (ValidatesOf(id) # {} /\ ~InProgress(id)) =>
                Cardinality(ErrorsOf(id)) =
                    IF log[LastOf(ValidatesOf(id))].pass THEN 0 ELSE 1
          /\ InProgress(id) => ErrorsOf(id) = {}
    /\ (pc = "done" /\ errors = <<>>) =>
          LET coerced == { k \in 1..Len(log) :
                             log[k].op = "coerce" /\ IsDefined(log[k].ret) }
          IN value = IF coerced = {} THEN input
                     ELSE TheValue(log[LastOf(coerced)].ret)
    /\ opts.convert =>
          \A k \in 1..Len(errors) : errors[k].ruleName # "string.trim"

\* C6 witness: a coerced value failed its re-run and the rule has exactly one
\* error.
C6_Witness ==
    /\ pc = "done"
    /\ \E id \in 1..Len(decl) :
          /\ Cardinality(ValidatesOf(id)) = 2
          /\ Cardinality(ErrorsOf(id)) = 1
          /\ \E k \in CoercesOf(id) : IsDefined(log[k].ret)

\* A padded string was trimmed by string.trim and the run succeeded with it.
TrimRoundTrip ==
    /\ pc = "done" /\ opts.convert /\ errors = <<>>
    /\ decl = << Call("Trim", <<>>) >>
    /\ input = <<" ", "a">> /\ value = <<"a">>

\* C7: validate is invoked in nondecreasing priority(), and in authoring
\* order among equal priorities; unless the run aborts early, every
\* operating instance is validated.
C7_PriorityOrder ==
    /\ \A j, k \in 1..Len(log) :
          (j < k /\ log[j].op = "validate" /\ log[k].op = "validate") =>
             LET pj == Priority(decl[log[j].id].def)
                 pk == Priority(decl[log[k].id].def)
             IN pj <= pk /\ (pj = pk => log[j].id <= log[k].id)
    /\ (pc = "done" /\ ~opts.abortEarly) =>
          \A i \in FirstOccurrences : ValidatesOf(i) # {}

\* C7 witness: a rule declared last was validated first.
C7_Witness ==
    /\ pc = "done"
    /\ \E j, k \in 1..Len(log) :
          /\ j < k /\ log[j].op = "validate" /\ log[k].op = "validate"
          /\ log[j].id > log[k].id
          /\ Priority(decl[log[j].id].def) < Priority(decl[log[k].id].def)

\* C8: identicalTo is reflexive and holds of two instances iff they come
\* from the same definition with equal captured arguments; of identical chain
\* calls only the first is compiled and executed.
C8_IdenticalTo ==
    /\ \A i, j \in 1..Len(decl) :
          LET a == NewRule(decl[i], i)
              b == NewRule(decl[j], j)
          IN /\ IdenticalTo(a, a)
             /\ IdenticalTo(a, b) <=>
                   (decl[i].def = decl[j].def /\ decl[i].args = decl[j].args)
    /\ pc = "compiling" =>
          { rules[k].id : k \in 1..Len(rules) } = FirstOccurrences
    /\ pc # "declared" =>
          /\ \A k \in 1..Len(rules) : rules[k].id \in FirstOccurrences
          /\ \A j, k \in 1..Len(rules) : rules[j].id = rules[k].id => j = k
    /\ \A k \in 1..Len(log) : log[k].id \in FirstOccurrences

\* C8 witness: a schema with a repeated chain call ran; the first was
\* validated.
C8_Witness ==
    /\ pc = "done"
    /\ \E i, j \in 1..Len(decl) :
          /\ i < j /\ decl[i] = decl[j]
          /\ ValidatesOf(i) # {} /\ ValidatesOf(j) = {}
    /\ \E i, j \in 1..Len(decl) :
          /\ decl[i].def = decl[j].def /\ decl[i].args # decl[j].args
          /\ ValidatesOf(i) # {} /\ ValidatesOf(j) # {}

\* C10: string.min(n) passes iff the length is at least n and string.max(m)
\* iff it is at most m; a failure's info is {length, min} or {length, max}.
\* For string().min(2).max(5): "ab" passes, "a" fails with exactly
\* string.min {length: 1, min: 2}, "abcdef" with exactly string.max
\* {length: 6, max: 5}.
C10_StringLength ==
    /\ \A k \in 1..Len(log) :
          LET c == decl[log[k].id]
          IN /\ (log[k].op = "validate" /\ c.def = "Min") =>
                   (log[k].pass <=> Len(log[k].v) >= c.args[1])
             /\ (log[k].op = "validate" /\ c.def = "Max") =>
                   (log[k].pass <=> Len(log[k].v) <= c.args[1])
    /\ \A e \in 1..Len(errors) :
          LET c == decl[errors[e].rule]
              v == log[LastOf(ValidatesOf(errors[e].rule))].v
          IN /\ c.def = "Min" =>
                   errors[e].info = Some([length |-> Len(v), min |-> c.args[1]])
             /\ c.def = "Max" =>
                   errors[e].info = Some([length |-> Len(v), max |-> c.args[1]])
    /\ (/\ pc = "done" /\ ~opts.abortEarly
        /\ decl = << Call("StringValidator", <<>>), Call("Min", <<2>>),
                     Call("Max", <<5>>) >>) =>
          /\ input = <<"a", "b">> => errors = <<>>
          /\ input = <<"a">> =>
                Reported = << [ruleName |-> "string.min",
                               info |-> Some([length |-> 1, min |-> 2])] >>
          /\ input = <<"a", "b", "c", "d", "e", "f">> =>
                Reported = << [ruleName |-> "string.max",
                               info |-> Some([length |-> 6, max |-> 5])] >>

\* C10 witness: "abcdef" failed string().min(2).max(5) on string.max.
C10_Witness ==
    /\ pc = "done"
    /\ decl = << Call("StringValidator", <<>>), Call("Min", <<2>>),
                 Call("Max", <<5>>) >>
    /\ input = <<"a", "b", "c", "d", "e", "f">>
    /\ Len(errors) = 1 /\ errors[1].ruleName = "string.max"

(***************************************************************************)
(*                    OBJECT RULES: Keys.validate                          *)
(***************************************************************************)

\* Schemas of object members.
MemberSchemas == {"s1", "s2"}

\* Arguments of object.keys: objects from key to member schema.
KeysArgs ==
    { <<>>,
      [k \in {"a"} |-> "s1"], [k \in {"a"} |-> "s2"], [k \in {"b"} |-> "s1"],
      [k \in {"a", "b"} |-> IF k = "a" THEN "s1" ELSE "s2"] }

\* Chain calls of the object runs.
ObjectCalls ==
    { Call("Keys", <<o>>) : o \in KeysArgs }
    \cup { Call("Unknown", <<>>), Call("Unknown", <<TRUE>>),
           Call("Unknown", <<FALSE>>) }

\* Values of the object runs: undefined, null, and objects of raw properties.
ObjectValue(ks) == [kind |-> "object", props |-> [k \in ks |-> "raw"]]
ObjectValues ==
    { [kind |-> "undefined", props |-> <<>>], [kind |-> "null", props |-> <<>>] }
    \cup { ObjectValue(ks) : ks \in SUBSET {"a", "b", "c"} }

Range(seq) == { seq[i] : i \in 1..Len(seq) }

\* A mutant of ValidateUnknown: the error is called back but the caller is not
\* told to stop.
ValidateUnknownNoReturn(r, v) ==
    LET extra == SelectSeq(ObjectKeys(v.props),
                           LAMBDA k : k \notin Range(TheValue(r._keys)))
    IN IF extra # <<>>
       THEN [returns |-> FALSE,
             callbacks |-> << FailWith([extra |-> extra[1],
                                        rule |-> "object.unknown"]) >>]
       ELSE [returns |-> FALSE, callbacks |-> <<>>]

\* Keys._validateUnknown: calls back with an error for the first key of the
\* value that is not declared, and returns whether it did.
ValidateUnknown(r, v) ==
    LET extra == SelectSeq(ObjectKeys(v.props),
                           LAMBDA k : k \notin Range(TheValue(r._keys)))
    IN IF extra # <<>>
       THEN [returns |-> TRUE,
             callbacks |-> << FailWith([extra |-> extra[1],
                                        rule |-> "object.unknown"]) >>]
       ELSE [returns |-> FALSE, callbacks |-> <<>>]

\* The synchronous part of Keys.validate: the callbacks it makes at once and
\* whether it goes on to start the member validations.
KeysValidate(r, v) ==
    IF v.kind \in {"undefined", "null"}
    THEN [callbacks |-> <<Fail>>, start |-> FALSE]
    ELSE LET u == IF ~TheValue(r._allowUnknown)
                  THEN ValidateUnknown(r, v)
                  ELSE [returns |-> FALSE, callbacks |-> <<>>]
         IN [callbacks |-> u.callbacks, start |-> ~u.returns]

\* async.all(todo, callback): the result handed to callback once every task
\* has called back.
AllResult(members) ==
    LET failed == { i \in 1..Len(members) : members[i] = "err" }
    IN IF failed = {} THEN Pass ELSE FailWith([members |-> failed])

AllSettled(members) == \A i \in 1..Len(members) : members[i] # "pending"

\* What a member validation calls back with: an error, or a possibly
\* converted value.
MemberOutcomes == {"err", "ok", "converted"}

InitObject ==
    /\ decl \in Schemas(ObjectCalls, MaxRules)
    /\ input \in ObjectValues

\* validate of the current rule, a Keys instance.
KeysValidateStep ==
    /\ pc = "validate" /\ idx <= Len(rules) /\ rules[idx].def = "Keys"
    /\ LET r == rules[idx]
           eff == KeysValidate(r, value)
           members == IF eff.start
                      THEN [i \in 1..Len(TheValue(r._keys)) |-> "pending"]
                      ELSE <<>>
           atOnce == IF eff.start /\ members = <<>>
                     THEN Append(eff.callbacks, Pass)
                     ELSE eff.callbacks
       IN /\ kv' = [called |-> TRUE, cb |-> Len(atOnce),
                    started |-> eff.start, members |-> members]
          /\ IF atOnce # <<>>
             THEN /\ log' = Append(log, LogValidate(r, value, atOnce[1]))
                  /\ Validated(atOnce[1])
             ELSE /\ pc' = "await"
                  /\ UNCHANGED <<idx, last, errors, log>>
    /\ UNCHANGED <<decl, rules, opts, input, value>>

\* The validation of one member calls back; when it is the last one,
\* async.all calls the rule's callback.
MemberCallback ==
    /\ kv.started
    /\ \E i \in 1..Len(kv.members), outcome \in MemberOutcomes :
          /\ kv.members[i] = "pending"
          /\ LET r == CHOOSE x \in Range(rules) : x.def = "Keys"
                 key == TheValue(r._keys)[i]
                 members == [kv.members EXCEPT
                               ![i] = IF outcome = "err" THEN "err" ELSE "ok"]
                 res == AllResult(members)
             IN /\ value' = IF outcome = "converted" /\ opts.convert
                             THEN [value EXCEPT !.props =
                                     [k \in DOMAIN @ \cup {key} |->
                                        IF k = key THEN "converted" ELSE @[k]]]
                             ELSE value
                /\ kv' = [kv EXCEPT !.members = members,
                                    !.cb = IF AllSettled(members) THEN @ + 1 ELSE @]
                /\ IF AllSettled(members) /\ pc = "await"
                   THEN /\ log' = Append(log, LogValidate(r, value, res))
                        /\ Validated(res)
                   ELSE UNCHANGED <<pc, idx, last, errors, log>>
    /\ UNCHANGED <<decl, rules, opts, input>>

NextObject ==
    \/ DedupeStep /\ UNCHANGED rulesetVars
    \/ CompileStep /\ UNCHANGED rulesetVars
    \/ PrepareStep /\ UNCHANGED rulesetVars
    \/ KeysValidateStep /\ UNCHANGED rulesetVars
    \/ MemberCallback /\ UNCHANGED rulesetVars
    \/ CoerceStep /\ UNCHANGED rulesetVars
    \/ FinishStep /\ UNCHANGED rulesetVars

InitObjectRun == RulesetIdle /\ InitObject /\ InitRun

SpecObject == InitObjectRun /\ [][NextObject]_vars

\* ---- the object runs ----
KeysDecls == { i \in 1..Len(decl) : decl[i].def = "Keys" }
UnknownDecls == { i \in 1..Len(decl) : decl[i].def = "Unknown" }
\* unknown() or unknown(true)
Allows(call) == call.args = <<>> \/ call.args[1]
\* The pipeline has been compiled.
Compiled == pc \notin {"declared", "compiling"}
\* The Keys instances of the pipeline.
PipelineKeys == { k \in 1..Len(rules) : rules[k].def = "Keys" }
KeysValidates ==
    { k \in 1..Len(log) : log[k].op = "validate" /\ decl[log[k].id].def = "Keys" }
UnknownErrors ==
    { k \in 1..Len(errors) :
        /\ IsDefined(errors[k].info)
        /\ "rule" \in DOMAIN TheValue(errors[k].info)
        /\ TheValue(errors[k].info).rule = "object.unknown" }

\* C3: when every object.unknown of the schema is called with no argument or
\* true and one of them, not a repetition of an earlier chain call, follows an
\* object.keys declaration, the operating Keys instance has extra-key
\* rejection off and no object.unknown error is produced.
C3_UnknownAfterKeys ==
    (/\ Compiled
     /\ \A u \in UnknownDecls : Allows(decl[u])
     /\ \E u \in UnknownDecls \cap FirstOccurrences, k \in KeysDecls : k < u) =>
        /\ \A k \in PipelineKeys : rules[k]._allowUnknown = Some(TRUE)
        /\ UnknownErrors = {}

\* The same statement for a schema whose object.keys declarations before the
\* last object.unknown collapse to one instance.
UnknownAfterSingleKeys ==
    (/\ Compiled
     /\ \A u \in UnknownDecls : Allows(decl[u])
     /\ \E u \in UnknownDecls \cap FirstOccurrences, k \in KeysDecls : k < u
     /\ \A u \in UnknownDecls :
           Cardinality({ k \in KeysDecls \cap FirstOccurrences : k < u }) <= 1) =>
        /\ \A k \in PipelineKeys : rules[k]._allowUnknown = Some(TRUE)
        /\ UnknownErrors = {}

\* C4: with exactly two object.keys declarations, of disjoint key sets, the
\* pipeline holds one Keys instance, the first; its key list and its member
\* map cover exactly both key sets with the declared member schemas, and a
\* run makes one Keys validation with one member validation per key.
C4_KeysMerge ==
    \A i, j \in KeysDecls :
       LET a1 == decl[i].args[1]
           a2 == decl[j].args[1]
           both == DOMAIN a1 \cup DOMAIN a2
       IN (/\ Compiled /\ i < j /\ KeysDecls = {i, j}
           /\ DOMAIN a1 \cap DOMAIN a2 = {}) =>
             /\ PipelineKeys = {1} /\ Len(rules) = 1
             /\ rules[1].id = i
             /\ LET keys == TheValue(rules[1]._keys)
                    obj == TheValue(rules[1]._obj)
                IN /\ Range(keys) = both
                   /\ Len(keys) = Cardinality(both)
                   /\ DOMAIN obj = both
                   /\ \A k \in DOMAIN a1 : obj[k] = a1[k]
                   /\ \A k \in DOMAIN a2 : obj[k] = a2[k]
                   /\ kv.started => Len(kv.members) = Cardinality(both)
             /\ Cardinality(KeysValidates) <= 1
             /\ pc = "done" => Cardinality(KeysValidates) = 1

\* C4 witness: keys({a}).keys({b}) validated both members of {a, b}.
C4_Witness ==
    /\ pc = "done" /\ errors = <<>>
    /\ decl = << Call("Keys", << [k \in {"a"} |-> "s1"] >>),
                 Call("Keys", << [k \in {"b"} |-> "s1"] >>) >>
    /\ DOMAIN input.props = {"a", "b"}
    /\ kv.members = <<"ok", "ok">>

\* C5: the callback of Keys.validate is invoked exactly once: at once, with
\* an error and without starting a member validation, when the value is
\* null or undefined or has an undeclared key that is rejected; otherwise
\* when, and only when, every member validation has called back.
C5_CallbackOnce ==
    /\ kv.cb <= 1
    /\ Cardinality(KeysValidates) = kv.cb
    /\ pc = "await" => kv.called /\ kv.cb = 0
    /\ (pc = "done" /\ PipelineKeys # {}) => kv.cb = 1
    /\ kv.called =>
          LET r == rules[CHOOSE k \in PipelineKeys : TRUE]
              declared == Range(TheValue(r._keys))
              rejects ==
                 \/ input.kind \in {"undefined", "null"}
                 \/ /\ ~TheValue(r._allowUnknown)
                    /\ ~(DOMAIN input.props \subseteq declared)
          IN IF rejects
             THEN /\ kv.cb = 1 /\ ~kv.started /\ kv.members = <<>>
                  /\ \A k \in KeysValidates : ~log[k].pass
             ELSE /\ kv.started
                  /\ Len(kv.members) = Len(TheValue(r._keys))
                  /\ kv.cb = 1 <=> AllSettled(kv.members)
                  /\ \A k \in KeysValidates :
                        log[k].pass <=> \A m \in 1..Len(kv.members) :
                                          kv.members[m] = "ok"

\* C5 witness: two members called back, one with an error, and the rule
\* called back once.
C5_Witness ==
    /\ pc = "done" /\ kv.started /\ kv.cb = 1
    /\ Len(kv.members) >= 2
    /\ "err" \in Range(kv.members) /\ "ok" \in Range(kv.members)

\* ---- the key list of the operating Keys instance ----
\* The keys declared by the object.keys calls of the schema.
DeclaredKeys == UNION { DOMAIN decl[i].args[1] : i \in KeysDecls }
\* The operating Keys instances of the compiled pipeline.
OperatingKeys == { k \in PipelineKeys : Operates(rules[k]) }
\* The number of times key occurs in the key list keys.
Occurrences(keys, key) == Cardinality({ n \in 1..Len(keys) : keys[n] = key })

\* C11: after any sequence of object.keys declarations, overlapping key sets
\* included, the key list of the operating Keys instance holds each declared
\* key exactly once and equals the key set of its member map, and
\* Keys.validate starts exactly one member validation per declared key.
C11_KeysOnce ==
    Compiled =>
       \A k \in OperatingKeys :
          LET keys == TheValue(rules[k]._keys)
              obj == TheValue(rules[k]._obj)
          IN /\ Range(keys) = DeclaredKeys
             /\ DOMAIN obj = DeclaredKeys
             /\ \A key \in DeclaredKeys : Occurrences(keys, key) = 1
             /\ (kv.started /\ rules[k].def = "Keys") =>
                   Len(kv.members) = Cardinality(DeclaredKeys)

\* What holds for every sequence of declarations: the key list and the member
\* map cover exactly the declared keys, and a key occurs in the list once per
\* non-identical declaration that names it; a run starts one member validation
\* per entry of the list.
KeysOncePerDeclaration ==
    Compiled =>
       \A k \in OperatingKeys :
          LET keys == TheValue(rules[k]._keys)
              obj == TheValue(rules[k]._obj)
          IN /\ Range(keys) = DeclaredKeys
             /\ DOMAIN obj = DeclaredKeys
             /\ \A key \in DeclaredKeys :
                   Occurrences(keys, key) =
                      Cardinality({ i \in KeysDecls \cap FirstOccurrences :
                                      key \in DOMAIN decl[i].args[1] })
             /\ kv.started => Len(kv.members) = Len(keys)

\* C11 holds when the key sets of the non-identical declarations are pairwise
\* disjoint.
KeysOnceWhenDisjoint ==
    (/\ Compiled
     /\ \A i, j \in KeysDecls \cap FirstOccurrences :
           i # j => DOMAIN decl[i].args[1] \cap DOMAIN decl[j].args[1] = {}) =>
       \A k \in OperatingKeys :
          LET keys == TheValue(rules[k]._keys)
          IN /\ \A key \in DeclaredKeys : Occurrences(keys, key) = 1
             /\ kv.started => Len(kv.members) = Cardinality(DeclaredKeys)

\* Overlapping declarations ran: keys({a: s1}).keys({a: s2}) started two
\* validations of the member a.
KeysTwiceReached ==
    /\ pc = "done"
    /\ decl = << Call("Keys", << [k \in {"a"} |-> "s1"] >>),
                 Call("Keys", << [k \in {"a"} |-> "s2"] >>) >>
    /\ kv.started /\ Len(kv.members) = 2

====
